---------------------------- MODULE Spec2Model ----------------------------
(***************************************************************************)
(* A state-machine model of network/model_trainer.py (class ModelTrainer)  *)
(* of craters-detection-by-dl: the epoch loops train and validate, the     *)
(* checkpoint persistence save_model / load_state and the running metric   *)
(* accumulators.                                                           *)
(*                                                                         *)
(* The network, the criterion, the optimizer and the scheduler are opaque  *)
(* collaborators of the trainer.  Their state is abstracted to what the    *)
(* trainer can observe of it:                                              *)
(*   model      [params, bn]  number of parameter updates applied and the  *)
(*              number of running-statistics updates of the BatchNorm      *)
(*              layers (ConvBNReLU), i.e. the content of state_dict();     *)
(*   optimizer  [groups, steps]  the state_dict() of the optimizer;        *)
(*   scheduler  [last_epoch]     the state_dict() of the scheduler.        *)
(* Floating point numbers are modelled as exact rationals <<n, d>>.        *)
(***************************************************************************)
EXTENDS Integers, Sequences, FiniteSets, TLC

VARIABLES
    train_loader,   \* self.train_loader: the batches it yields, in order
    valid_loader,   \* self.valid_loader
    model,          \* state of self.model (what state_dict() returns)
    mode,           \* "train" or "eval": the flag set by model.train()/eval()
    grad,           \* gradients of the parameters: "none", "zero", "fresh"
    optimizer,      \* state of self.optimizer
    scheduler,      \* state of self.scheduler
    files,          \* the checkpoint files on disk, by path
    log,            \* the lines of train_info_<start_time>.txt
    pc,             \* position of the thread of control
    call,           \* arguments and locals of the running (or last) call
    err,            \* exception that ended the last call, "none" if it returned
    ret,            \* value returned by the last load_state
    hist,           \* history of the running (or last) call (observation only)
    ncalls          \* number of calls the driver has made

vars == <<train_loader, valid_loader, model, mode, grad, optimizer, scheduler,
          files, log, pc, call, err, ret, hist, ncalls>>

-----------------------------------------------------------------------------
(* Bounds of the model *)

\* longest data source enumerated batch by batch
MaxN == 2

\* number of calls the driver makes on one trainer
MaxCalls == 2

\* largest epoch number the driver passes
MaxEpoch == 1

\* the batch_size argument the driver passes (used in the log lines only)
BatchSize == 2

\* default of the save_interval parameter of train and validate
DefaultSaveInterval == 50

\* length of the long data source of the save_interval example
LongN == 10

-----------------------------------------------------------------------------
(* Rational arithmetic: the float computations of the metrics *)

RECURSIVE Gcd(_, _)
Gcd(a, b) == IF b = 0 THEN a ELSE Gcd(b, a % b)

Norm(n, d) == LET g == Gcd(n, d) IN IF n = 0 THEN <<0, 1>> ELSE <<n \div g, d \div g>>

Zero == <<0, 1>>

RAdd(a, b) == Norm(a[1] * b[2] + b[1] * a[2], a[2] * b[2])

\* a / k for an integer k > 0
RDivInt(a, k) == Norm(a[1], a[2] * k)

\* f"{x:.4f}": x rounded to four decimals (half to even), as a number of 1/10000
Fmt4(x) ==
    LET t == x[1] * 10000
        q == t \div x[2]
        r == t % x[2]
    IN  IF 2 * r < x[2] THEN q
        ELSE IF 2 * r > x[2] THEN q + 1
        ELSE IF q % 2 = 0 THEN q ELSE q + 1

RECURSIVE RSum(_)
RSum(s) == IF s = <<>> THEN Zero ELSE RAdd(RSum(SubSeq(s, 1, Len(s) - 1)), s[Len(s)])

-----------------------------------------------------------------------------
(* Batches and data sources *)

\* a batch: an image tensor (named by a number) and its flattened mask
Batch(i) ==
    IF i % 2 = 1 THEN [images |-> 0, masks |-> <<0, 0>>]
                 ELSE [images |-> 1, masks |-> <<1, 0>>]

\* the data source that yields n batches
Loader(n) == [i \in 1..n |-> Batch(i)]

\* the lengths of the training and of the validation source of a run: every
\* pair of short sources, and the long training source of the save_interval
\* example beside a validation source of one batch
LoaderLengths == ((0..MaxN) \X (0..MaxN)) \cup {<<LongN, 1>>}

Epochs == 0..MaxEpoch

SaveIntervals == {1, 2, DefaultSaveInterval}

-----------------------------------------------------------------------------
(* The opaque collaborators *)

\* torch.round(torch.sigmoid(self.model(images))).flatten(): the network is a
\* deterministic function of its parameters and its input
Predict(m, images) ==
    LET k == (m.params + 2 * images) % 4
    IN  <<k % 2, (k \div 2) % 2>>

\* a forward pass in training mode updates the running statistics of every
\* BatchNorm2d layer; in evaluation mode it leaves the model unchanged
ForwardUpdate(m, md) ==
    IF md = "train" THEN [m EXCEPT !.bn = @ + 1] ELSE m

\* self.criterion(outputs, masks).item(): the share of mismatching pixels
Criterion(preds, masks) ==
    Norm(Cardinality({ j \in 1..Len(masks) : preds[j] # masks[j] }), Len(masks))

TP(masks, preds) == Cardinality({ j \in 1..Len(masks) : masks[j] = 1 /\ preds[j] = 1 })
FP(masks, preds) == Cardinality({ j \in 1..Len(masks) : masks[j] = 0 /\ preds[j] = 1 })
FN(masks, preds) == Cardinality({ j \in 1..Len(masks) : masks[j] = 1 /\ preds[j] = 0 })

\* precision_score called with zero_division=1.0
precision_score_one(masks, preds) ==
    LET tp == TP(masks, preds)
        fp == FP(masks, preds)
    IN  IF tp + fp = 0 THEN <<1, 1>> ELSE Norm(tp, tp + fp)

\* precision_score(binary_masks, preds, zero_division=0.0)
precision_score(masks, preds) ==
    LET tp == TP(masks, preds)
        fp == FP(masks, preds)
    IN  IF tp + fp = 0 THEN Zero ELSE Norm(tp, tp + fp)

\* recall_score(binary_masks, preds): zero_division defaults to "warn", which
\* warns and yields 0.0
recall_score(masks, preds) ==
    LET tp == TP(masks, preds)
        fn == FN(masks, preds)
    IN  IF tp + fn = 0 THEN Zero ELSE Norm(tp, tp + fn)

\* f1_score(binary_masks, preds)
f1_score(masks, preds) ==
    LET tp == TP(masks, preds)
        fp == FP(masks, preds)
        fn == FN(masks, preds)
    IN  IF 2 * tp + fp + fn = 0 THEN Zero ELSE Norm(2 * tp, 2 * tp + fp + fn)

-----------------------------------------------------------------------------
(* Checkpoint files *)

\* f'{save_path}/model_{start_time}_epoch_{epoch}.pth': save_path and
\* start_time are the same in every call of one run
CkptPath(epoch) == <<"model", epoch>>

\* files that exist before the run: a checkpoint of a run whose optimizer had
\* two parameter groups, and a file that holds no scheduler state
OtherOptimizerPath == <<"other", 0>>
NoSchedulerPath == <<"other", 1>>
MissingPath == <<"other", 2>>

Paths == { CkptPath(e) : e \in Epochs } \cup {OtherOptimizerPath, NoSchedulerPath, MissingPath}

AllKeys == {"epoch", "model_state_dict", "optimizer_state_dict", "scheduler_state_dict"}

InitModel == [params |-> 0, bn |-> 0]
InitOptimizer == [groups |-> 1, steps |-> 0]
InitScheduler == [last_epoch |-> 0]

\* a save_model that stores the number of the epoch to come
CheckpointNextEpoch(epoch, m, o, s) ==
    [kind |-> "ckpt", keys |-> AllKeys, epoch |-> epoch + 1, model_state_dict |-> m,
     optimizer_state_dict |-> o, scheduler_state_dict |-> s]

\* the dictionary save_model hands to torch.save, as the file holds it
Checkpoint(epoch, m, o, s) ==
    [kind |-> "ckpt", keys |-> AllKeys, epoch |-> epoch, model_state_dict |-> m,
     optimizer_state_dict |-> o, scheduler_state_dict |-> s]

NoFile ==
    [kind |-> "none", keys |-> {}, epoch |-> 0, model_state_dict |-> InitModel,
     optimizer_state_dict |-> InitOptimizer, scheduler_state_dict |-> InitScheduler]

\* what a write that failed half way leaves at the path
TornFile == [NoFile EXCEPT !.kind = "torn"]

InitFiles ==
    [p \in Paths |->
        IF p = OtherOptimizerPath
        THEN [NoFile EXCEPT !.kind = "ckpt", !.keys = AllKeys, !.epoch = 1,
                            !.model_state_dict = [params |-> 3, bn |-> 3],
                            !.optimizer_state_dict = [groups |-> 2, steps |-> 3],
                            !.scheduler_state_dict = [last_epoch |-> 1]]
        ELSE IF p = NoSchedulerPath
        THEN [NoFile EXCEPT !.kind = "ckpt", !.keys = AllKeys \ {"scheduler_state_dict"},
                            !.epoch = 1,
                            !.model_state_dict = [params |-> 3, bn |-> 3],
                            !.optimizer_state_dict = [groups |-> 1, steps |-> 3]]
        ELSE NoFile]

\* a load_state that leaves out line 29
LoadOutcomeWithoutScheduler(f, m, o, s) ==
    LET same == [model |-> m, optimizer |-> o, scheduler |-> s, ret |-> -1, err |-> "none"]
    IN  IF f.kind = "none" THEN [same EXCEPT !.err = "FileNotFoundError"]
        ELSE IF f.kind = "torn" THEN [same EXCEPT !.err = "RuntimeError"]
        ELSE IF f.optimizer_state_dict.groups # o.groups
             THEN [same EXCEPT !.model = f.model_state_dict, !.err = "ValueError"]
        ELSE [same EXCEPT !.model = f.model_state_dict,
                          !.optimizer = f.optimizer_state_dict,
                          !.ret = f.epoch]

\* load_state, statement by statement: the live states after the call, the
\* value returned and the exception raised
LoadOutcome(f, m, o, s) ==
    LET same == [model |-> m, optimizer |-> o, scheduler |-> s, ret |-> -1, err |-> "none"]
    IN  IF f.kind = "none" THEN [same EXCEPT !.err = "FileNotFoundError"]
        ELSE IF f.kind = "torn" THEN [same EXCEPT !.err = "RuntimeError"]
        ELSE IF "model_state_dict" \notin f.keys THEN [same EXCEPT !.err = "KeyError"]
        ELSE LET s1 == [same EXCEPT !.model = f.model_state_dict]
             IN  IF "optimizer_state_dict" \notin f.keys THEN [s1 EXCEPT !.err = "KeyError"]
                 ELSE IF f.optimizer_state_dict.groups # o.groups
                      THEN [s1 EXCEPT !.err = "ValueError"]
                 ELSE LET s2 == [s1 EXCEPT !.optimizer = f.optimizer_state_dict]
                      IN  IF "scheduler_state_dict" \notin f.keys
                          THEN [s2 EXCEPT !.err = "KeyError"]
                          ELSE [s2 EXCEPT !.scheduler = f.scheduler_state_dict,
                                          !.ret = f.epoch]

-----------------------------------------------------------------------------
(* Locals of a call *)

ZeroMetrics == [loss |-> Zero, precision |-> Zero, recall |-> Zero, f1 |-> Zero]

\* sums that live on from the call before
CarriedAccumulator(previous) == previous

\* train_loss = 0.0 ... train_f1 = 0.0: the sums are locals of the call
InitAccumulator(previous) == ZeroMetrics

Accumulate(acc, b) ==
    [loss |-> RAdd(acc.loss, b.loss), precision |-> RAdd(acc.precision, b.precision),
     recall |-> RAdd(acc.recall, b.recall), f1 |-> RAdd(acc.f1, b.f1)]

\* train_loss /= len(self.train_loader) ...
Average(acc, n) ==
    [loss |-> RDivInt(acc.loss, n), precision |-> RDivInt(acc.precision, n),
     recall |-> RDivInt(acc.recall, n), f1 |-> RDivInt(acc.f1, n)]

BatchMetrics(preds, masks, loss) ==
    [loss |-> loss, precision |-> precision_score(masks, preds),
     recall |-> recall_score(masks, preds), f1 |-> f1_score(masks, preds)]

\* the periodic line: no F1, Images is batch_idx * batch_size
PeriodicLine(phase, epoch, batch_idx, b) ==
    [phase |-> phase, end |-> FALSE, epoch |-> epoch, images |-> batch_idx * BatchSize,
     L |-> Fmt4(b.loss), P |-> Fmt4(b.precision), R |-> Fmt4(b.recall), F1 |-> -1]

\* the [END] line: no Images
EndLine(phase, epoch, a) ==
    [phase |-> phase, end |-> TRUE, epoch |-> epoch, images |-> -1,
     L |-> Fmt4(a.loss), P |-> Fmt4(a.precision), R |-> Fmt4(a.recall), F1 |-> Fmt4(a.f1)]

\* the interval counted from one
IsSaveBatchOneBased(batch_idx, save_interval) == (batch_idx + 1) % save_interval = 0

\* batch_idx % save_interval == 0
IsSaveBatch(batch_idx, save_interval) == batch_idx % save_interval = 0

NoCall ==
    [phase |-> "none", epoch |-> 0, save_interval |-> 1, path |-> MissingPath, batch_idx |-> 0,
     acc |-> ZeroMetrics, preds |-> <<>>, masks |-> <<>>, loss |-> Zero,
     batch |-> ZeroMetrics]

NoSave == [valid |-> FALSE, path |-> MissingPath, epoch |-> 0, model |-> InitModel,
           optimizer |-> InitOptimizer, scheduler |-> InitScheduler]

NoHist ==
    [model0 |-> InitModel, optimizer0 |-> InitOptimizer, scheduler0 |-> InitScheduler,
     files0 |-> InitFiles, log0 |-> <<>>, events |-> <<>>, vals |-> <<>>, reads |-> <<>>,
     lastSave |-> NoSave]

\* the history of a call that starts now
StartHist ==
    [model0 |-> model, optimizer0 |-> optimizer, scheduler0 |-> scheduler,
     files0 |-> files, log0 |-> log, events |-> <<>>, vals |-> <<>>, reads |-> <<>>,
     lastSave |-> hist.lastSave]

Event(name) == [hist EXCEPT !.events = Append(@, <<name, call.batch_idx>>)]

SaveRecord(epoch, path) ==
    [valid |-> TRUE, path |-> path, epoch |-> epoch, model |-> model,
     optimizer |-> optimizer, scheduler |-> scheduler]

-----------------------------------------------------------------------------
(* Construction *)

Init ==
    /\ \E n \in LoaderLengths :
        /\ train_loader = Loader(n[1])
        /\ valid_loader = Loader(n[2])
    /\ model = InitModel
    /\ mode = "train"
    /\ grad = "none"
    /\ optimizer = InitOptimizer
    /\ scheduler = InitScheduler
    /\ files = InitFiles
    /\ log = <<>>
    /\ pc = "idle"
    /\ call = NoCall
    /\ err = "none"
    /\ ret = -1
    /\ hist = NoHist
    /\ ncalls = 0

Raise(e) == pc' = "idle" /\ err' = e

-----------------------------------------------------------------------------
(* load_state(model_path) *)

\* lines 21-31, the whole call
LoadState ==
    /\ pc = "idle"
    /\ ncalls < MaxCalls
    /\ \E path \in Paths :
        LET out == LoadOutcome(files[path], model, optimizer, scheduler)
        IN  /\ model' = out.model
            /\ optimizer' = out.optimizer
            /\ scheduler' = out.scheduler
            /\ ret' = out.ret
            /\ err' = out.err
            /\ call' = [NoCall EXCEPT !.phase = "load", !.path = path]
    /\ hist' = StartHist
    /\ ncalls' = ncalls + 1
    /\ UNCHANGED <<train_loader, valid_loader, mode, grad, files, log, pc>>

-----------------------------------------------------------------------------
(* train(epoch, start_time, batch_size, save_path, save_interval) *)

\* lines 62-73.  An error is not caught anywhere: it ends the run, and what
\* can follow it is the load_state of the run that takes over (err # "none"
\* blocks train and validate until a load_state has returned).
TrainBegin ==
    /\ pc = "idle"
    /\ err = "none"
    /\ ncalls < MaxCalls
    /\ \E epoch \in Epochs, save_interval \in SaveIntervals :
        call' = [NoCall EXCEPT !.phase = "train", !.epoch = epoch,
                               !.save_interval = save_interval,
                               !.path = CkptPath(epoch),
                               !.acc = InitAccumulator(call.acc)]
    /\ mode' = "train"
    /\ pc' = "t_loop"
    /\ err' = "none"
    /\ hist' = StartHist
    /\ ncalls' = ncalls + 1
    /\ UNCHANGED <<train_loader, valid_loader, model, grad, optimizer, scheduler,
                   files, log, ret>>

\* lines 75-77: the next batch is fetched, the gradients are zeroed
TrainZeroGrad ==
    /\ pc = "t_loop"
    /\ call.batch_idx < Len(train_loader)
    /\ grad' = "zero"
    /\ call' = [call EXCEPT !.masks = train_loader[call.batch_idx + 1].masks]
    /\ hist' = Event("zero_grad")
    /\ pc' = "t_forward"
    /\ UNCHANGED <<train_loader, valid_loader, model, mode, optimizer, scheduler,
                   files, log, err, ret, ncalls>>

\* lines 79-81
TrainForward ==
    /\ pc = "t_forward"
    /\ call' = [call EXCEPT !.preds = Predict(model, train_loader[call.batch_idx + 1].images)]
    /\ model' = ForwardUpdate(model, mode)
    /\ hist' = [Event("forward") EXCEPT !.reads = Append(@, model.params)]
    /\ pc' = "t_loss"
    /\ UNCHANGED <<train_loader, valid_loader, mode, grad, optimizer, scheduler,
                   files, log, err, ret, ncalls>>

\* line 83
TrainLoss ==
    /\ pc = "t_loss"
    /\ call' = [call EXCEPT !.loss = Criterion(call.preds, call.masks)]
    /\ hist' = Event("loss")
    /\ pc' = "t_backward"
    /\ UNCHANGED <<train_loader, valid_loader, model, mode, grad, optimizer, scheduler,
                   files, log, err, ret, ncalls>>

\* line 84
TrainBackward ==
    /\ pc = "t_backward"
    /\ grad' = "fresh"
    /\ hist' = Event("backward")
    /\ pc' = "t_step"
    /\ UNCHANGED <<train_loader, valid_loader, model, mode, optimizer, scheduler,
                   files, log, call, err, ret, ncalls>>

\* a loop body without line 85
TrainOptimizerStepMissing ==
    /\ pc = "t_step"
    /\ pc' = "t_metrics"
    /\ UNCHANGED <<train_loader, valid_loader, model, mode, grad, optimizer, scheduler,
                   files, log, call, err, ret, hist, ncalls>>

\* line 85
TrainOptimizerStep ==
    /\ pc = "t_step"
    /\ model' = [model EXCEPT !.params = @ + 1]
    /\ optimizer' = [optimizer EXCEPT !.steps = @ + 1]
    /\ hist' = Event("step")
    /\ pc' = "t_metrics"
    /\ UNCHANGED <<train_loader, valid_loader, mode, grad, scheduler,
                   files, log, call, err, ret, ncalls>>

\* lines 87-97
TrainMetrics ==
    /\ pc = "t_metrics"
    /\ LET b == BatchMetrics(call.preds, call.masks, call.loss)
           save == IsSaveBatch(call.batch_idx, call.save_interval)
       IN  /\ call' = [call EXCEPT !.batch = b, !.acc = Accumulate(@, b),
                                   !.batch_idx = IF save THEN @ ELSE @ + 1]
           /\ hist' = [Event("metrics") EXCEPT !.vals = Append(@, b)]
           /\ pc' = IF save THEN "t_save" ELSE "t_loop"
    /\ UNCHANGED <<train_loader, valid_loader, model, mode, grad, optimizer, scheduler,
                   files, log, err, ret, ncalls>>

\* line 98: save_model(epoch, path) writes the file
TrainSave ==
    /\ pc = "t_save"
    /\ files' = [files EXCEPT ![call.path] =
                    Checkpoint(call.epoch, model, optimizer, scheduler)]
    /\ hist' = [Event("save") EXCEPT !.lastSave = SaveRecord(call.epoch, call.path)]
    /\ pc' = "t_log"
    /\ UNCHANGED <<train_loader, valid_loader, model, mode, grad, optimizer, scheduler,
                   log, call, err, ret, ncalls>>

\* line 98: torch.save cannot open the path for writing
TrainSaveRefused ==
    /\ pc = "t_save"
    /\ Raise("OSError")
    /\ hist' = Event("raise")
    /\ UNCHANGED <<train_loader, valid_loader, model, mode, grad, optimizer, scheduler,
                   files, log, call, ret, ncalls>>

\* line 98: torch.save has opened (and so truncated) the file and fails while
\* it writes
TrainSaveTorn ==
    /\ pc = "t_save"
    /\ files' = [files EXCEPT ![call.path] = TornFile]
    /\ Raise("OSError")
    /\ hist' = Event("raise")
    /\ UNCHANGED <<train_loader, valid_loader, model, mode, grad, optimizer, scheduler,
                   log, call, ret, ncalls>>

\* lines 100-104
TrainLog ==
    /\ pc = "t_log"
    /\ log' = Append(log, PeriodicLine("train", call.epoch, call.batch_idx, call.batch))
    /\ hist' = Event("log")
    /\ call' = [call EXCEPT !.batch_idx = @ + 1]
    /\ pc' = "t_loop"
    /\ UNCHANGED <<train_loader, valid_loader, model, mode, grad, optimizer, scheduler,
                   files, err, ret, ncalls>>

\* lines 106-109: the division raises when the source has no batch
TrainAverage ==
    /\ pc = "t_loop"
    /\ call.batch_idx = Len(train_loader)
    /\ IF Len(train_loader) = 0
       THEN /\ Raise("ZeroDivisionError")
            /\ hist' = Event("raise")
            /\ UNCHANGED call
       ELSE /\ call' = [call EXCEPT !.acc = Average(@, Len(train_loader))]
            /\ hist' = Event("average")
            /\ pc' = "t_sched"
            /\ UNCHANGED err
    /\ UNCHANGED <<train_loader, valid_loader, model, mode, grad, optimizer, scheduler,
                   files, log, ret, ncalls>>

\* line 111
TrainSchedulerStep ==
    /\ pc = "t_sched"
    /\ scheduler' = [scheduler EXCEPT !.last_epoch = @ + 1]
    /\ hist' = Event("sched")
    /\ pc' = "t_end"
    /\ UNCHANGED <<train_loader, valid_loader, model, mode, grad, optimizer,
                   files, log, call, err, ret, ncalls>>

\* lines 113-117
TrainEndLog ==
    /\ pc = "t_end"
    /\ log' = Append(log, EndLine("train", call.epoch, call.acc))
    /\ hist' = Event("end")
    /\ pc' = "idle"
    /\ UNCHANGED <<train_loader, valid_loader, model, mode, grad, optimizer, scheduler,
                   files, call, err, ret, ncalls>>

-----------------------------------------------------------------------------
(* validate(epoch, start_time, batch_size, save_path, save_interval) *)

\* lines 119-130
ValidBegin ==
    /\ pc = "idle"
    /\ err = "none"
    /\ ncalls < MaxCalls
    /\ \E epoch \in Epochs, save_interval \in SaveIntervals :
        call' = [NoCall EXCEPT !.phase = "valid", !.epoch = epoch,
                               !.save_interval = save_interval,
                               !.path = CkptPath(epoch),
                               !.acc = InitAccumulator(call.acc)]
    /\ mode' = "eval"
    /\ pc' = "v_loop"
    /\ err' = "none"
    /\ hist' = StartHist
    /\ ncalls' = ncalls + 1
    /\ UNCHANGED <<train_loader, valid_loader, model, grad, optimizer, scheduler,
                   files, log, ret>>

\* lines 133-138, under torch.no_grad()
ValidForward ==
    /\ pc = "v_loop"
    /\ call.batch_idx < Len(valid_loader)
    /\ call' = [call EXCEPT !.masks = valid_loader[call.batch_idx + 1].masks,
                            !.preds = Predict(model, valid_loader[call.batch_idx + 1].images)]
    /\ model' = ForwardUpdate(model, mode)
    /\ hist' = [Event("forward") EXCEPT !.reads = Append(@, model.params)]
    /\ pc' = "v_loss"
    /\ UNCHANGED <<train_loader, valid_loader, mode, grad, optimizer, scheduler,
                   files, log, err, ret, ncalls>>

\* line 140
ValidLoss ==
    /\ pc = "v_loss"
    /\ call' = [call EXCEPT !.loss = Criterion(call.preds, call.masks)]
    /\ hist' = Event("loss")
    /\ pc' = "v_metrics"
    /\ UNCHANGED <<train_loader, valid_loader, model, mode, grad, optimizer, scheduler,
                   files, log, err, ret, ncalls>>

\* lines 142-152
ValidMetrics ==
    /\ pc = "v_metrics"
    /\ LET b == BatchMetrics(call.preds, call.masks, call.loss)
           report == IsSaveBatch(call.batch_idx, call.save_interval)
       IN  /\ call' = [call EXCEPT !.batch = b, !.acc = Accumulate(@, b),
                                   !.batch_idx = IF report THEN @ ELSE @ + 1]
           /\ hist' = [Event("metrics") EXCEPT !.vals = Append(@, b)]
           /\ pc' = IF report THEN "v_log" ELSE "v_loop"
    /\ UNCHANGED <<train_loader, valid_loader, model, mode, grad, optimizer, scheduler,
                   files, log, err, ret, ncalls>>

\* lines 153-157
ValidLog ==
    /\ pc = "v_log"
    /\ log' = Append(log, PeriodicLine("valid", call.epoch, call.batch_idx, call.batch))
    /\ hist' = Event("log")
    /\ call' = [call EXCEPT !.batch_idx = @ + 1]
    /\ pc' = "v_loop"
    /\ UNCHANGED <<train_loader, valid_loader, model, mode, grad, optimizer, scheduler,
                   files, err, ret, ncalls>>

\* lines 159-162
ValidAverage ==
    /\ pc = "v_loop"
    /\ call.batch_idx = Len(valid_loader)
    /\ IF Len(valid_loader) = 0
       THEN /\ Raise("ZeroDivisionError")
            /\ hist' = Event("raise")
            /\ UNCHANGED call
       ELSE /\ call' = [call EXCEPT !.acc = Average(@, Len(valid_loader))]
            /\ hist' = Event("average")
            /\ pc' = "v_end"
            /\ UNCHANGED err
    /\ UNCHANGED <<train_loader, valid_loader, model, mode, grad, optimizer, scheduler,
                   files, log, ret, ncalls>>

\* an end of validate that steps the scheduler as line 111 does in train
ValidEndLogWithSchedulerStep ==
    /\ pc = "v_end"
    /\ scheduler' = [scheduler EXCEPT !.last_epoch = @ + 1]
    /\ log' = Append(log, EndLine("valid", call.epoch, call.acc))
    /\ hist' = Event("end")
    /\ pc' = "idle"
    /\ UNCHANGED <<train_loader, valid_loader, model, mode, grad, optimizer,
                   files, call, err, ret, ncalls>>

\* lines 164-168
ValidEndLog ==
    /\ pc = "v_end"
    /\ log' = Append(log, EndLine("valid", call.epoch, call.acc))
    /\ hist' = Event("end")
    /\ pc' = "idle"
    /\ UNCHANGED <<train_loader, valid_loader, model, mode, grad, optimizer, scheduler,
                   files, call, err, ret, ncalls>>

\* lines 101, 114, 154, 165: the log file cannot be opened for appending
LogRefused ==
    /\ pc \in {"t_log", "t_end", "v_log", "v_end"}
    /\ Raise("OSError")
    /\ hist' = Event("raise")
    /\ UNCHANGED <<train_loader, valid_loader, model, mode, grad, optimizer, scheduler,
                   files, log, call, ret, ncalls>>

-----------------------------------------------------------------------------

Next ==
    \/ LoadState
    \/ TrainBegin
    \/ TrainZeroGrad
    \/ TrainForward
    \/ TrainLoss
    \/ TrainBackward
    \/ TrainOptimizerStep
    \/ TrainMetrics
    \/ TrainSave
    \/ TrainSaveRefused
    \/ TrainSaveTorn
    \/ TrainLog
    \/ TrainAverage
    \/ TrainSchedulerStep
    \/ TrainEndLog
    \/ ValidBegin
    \/ ValidForward
    \/ ValidLoss
    \/ ValidMetrics
    \/ ValidLog
    \/ ValidAverage
    \/ ValidEndLog
    \/ LogRefused

Spec == Init /\ [][Next]_vars

-----------------------------------------------------------------------------
(* Observations on the history of a call *)

Ended(phase) == pc = "idle" /\ call.phase = phase

Returned(phase) == Ended(phase) /\ err = "none"

\* the call was not cut short by the file system
Undisturbed == err # "OSError"

EventAt(name) == { k \in 1..Len(hist.events) : hist.events[k][1] = name }

CountEvents(name) == Cardinality(EventAt(name))

LastEvent == IF hist.events = <<>> THEN "none" ELSE hist.events[Len(hist.events)][1]

\* zero-based indices of the batches of this call at which a checkpoint was saved
SavedAt == { hist.events[k][2] : k \in EventAt("save") }

LoaderOf(phase) == IF phase = "train" THEN train_loader ELSE valid_loader

IsPrefix(s, u) == Len(s) <= Len(u) /\ SubSeq(u, 1, Len(s)) = s

NoPositive(preds) == \A j \in 1..Len(preds) : preds[j] = 0

Column(field) == [i \in 1..Len(hist.vals) |-> hist.vals[i][field]]

\* the arithmetic mean of the per-batch values of this call
MeanOf(field, n) == RDivInt(RSum(Column(field)), n)

IsBatchOp(e) == e[1] \in {"zero_grad", "forward", "loss", "backward", "step"}

BatchOps == SelectSeq(hist.events, IsBatchOp)

BatchOrder == <<"zero_grad", "forward", "loss", "backward", "step">>

-----------------------------------------------------------------------------
(* C1 *)

\* C1: for a training source with N batches, a call of train (that the file
\* system does not cut short) has performed, when it ends, the optimizer step
\* exactly N times and the scheduler step exactly once, the scheduler step
\* after the last optimizer step.
C1_StepsPerTrainCall ==
    (Ended("train") /\ Undisturbed) =>
        /\ CountEvents("step") = Len(train_loader)
        /\ CountEvents("sched") = 1
        /\ \A i \in EventAt("step"), j \in EventAt("sched") : i < j

-----------------------------------------------------------------------------
(* C2 *)

\* C2: during and after a call of validate, whatever the number of batches,
\* the optimizer state, the scheduler state and the checkpoint files are what
\* they were when the call began, no optimizer step, scheduler step or save
\* has happened, and the log has only grown at its end.
C2_ValidateFrame ==
    call.phase = "valid" =>
        /\ optimizer = hist.optimizer0
        /\ scheduler = hist.scheduler0
        /\ files = hist.files0
        /\ IsPrefix(hist.log0, log)
        /\ \A k \in 1..Len(hist.events) :
              hist.events[k][1] \notin {"step", "sched", "save"}

C2_Witness ==
    /\ Returned("valid")
    /\ Len(valid_loader) >= 2
    /\ hist.optimizer0.steps > 0
    /\ \E p \in Paths : p[1] = "model" /\ files[p].kind = "ckpt"
    /\ Len(log) > Len(hist.log0) + 1

-----------------------------------------------------------------------------
(* C3 *)

\* C3: in a call of train with save_interval s >= 1, a checkpoint is saved at
\* a batch exactly when its zero-based index i has i mod s = 0, each save is
\* directly followed by the periodic log line of that batch, and a call over
\* N batches that runs to its end has saved ceil(N/s) times; with s = 50 and
\* N = 10 that is one save, at index 0.
C3_SaveSchedule ==
    call.phase = "train" =>
        LET s == call.save_interval
            n == Len(train_loader)
            ev == hist.events
        IN  /\ s >= 1
            \* the last two events: every pair of neighbours of the history is
            \* the last pair in the state that follows the later of the two
            /\ Len(ev) >= 1 =>
                LET k == Len(ev)
                IN  /\ ev[k][1] = "save" =>
                          /\ ev[k][2] % s = 0
                          /\ k > 1 /\ ev[k - 1] = <<"metrics", ev[k][2]>>
                    /\ ev[k][1] = "log" =>
                          /\ k > 1 /\ ev[k - 1] = <<"save", ev[k][2]>>
                          /\ log = Append(SubSeq(log, 1, Len(log) - 1),
                                          PeriodicLine("train", call.epoch, ev[k][2],
                                                       hist.vals[Len(hist.vals)]))
                    /\ (k > 1 /\ ev[k - 1][1] = "metrics") =>
                          IF ev[k - 1][2] % s = 0
                          THEN ev[k][1] \in {"save", "raise"}
                          ELSE ev[k][1] \notin {"save", "log", "raise"}
                    /\ (k > 1 /\ ev[k - 1][1] = "save") =>
                          ev[k] \in {<<"log", ev[k - 1][2]>>, <<"raise", ev[k - 1][2]>>}
            /\ pc = "idle" =>
                  CountEvents("log") = Len(log) - Len(hist.log0) - CountEvents("end")
            /\ (pc = "idle" /\ Undisturbed) =>
                /\ SavedAt = { i \in 0..(n - 1) : i % s = 0 }
                /\ CountEvents("save") = (n + s - 1) \div s
                /\ (s = 50 /\ n = 10) => (SavedAt = {0} /\ CountEvents("save") = 1)

C3_Witness ==
    /\ Returned("train")
    /\ call.save_interval = 2
    /\ Len(train_loader) >= 3
    /\ SavedAt = { i \in 0..(Len(train_loader) - 1) : i % 2 = 0 }
    /\ Cardinality(SavedAt) >= 2

-----------------------------------------------------------------------------
(* C4 *)

\* C4: a load_state that returns, from the path the last save_model wrote,
\* returns the epoch that was saved and leaves model, optimizer and scheduler
\* state equal to what they were at the moment of that save, whatever steps
\* the live objects took in between.
C4_RoundTrip ==
    (Returned("load") /\ hist.lastSave.valid /\ hist.lastSave.path = call.path) =>
        /\ ret = hist.lastSave.epoch
        /\ model = hist.lastSave.model
        /\ optimizer = hist.lastSave.optimizer
        /\ scheduler = hist.lastSave.scheduler

C4_Witness ==
    /\ Returned("load")
    /\ hist.lastSave.valid
    /\ hist.lastSave.path = call.path
    /\ hist.optimizer0.steps > hist.lastSave.optimizer.steps
    /\ hist.scheduler0.last_epoch > hist.lastSave.scheduler.last_epoch
    /\ hist.model0 # model

-----------------------------------------------------------------------------
(* C5 *)

\* C5: after a call of load_state either the three states have all been
\* installed from the checkpoint and its epoch is returned, or the call has
\* failed and none of the three live states has been replaced.
C5_LoadAllOrNothing ==
    Ended("load") =>
        LET f == files[call.path]
        IN  \/ /\ err = "none"
               /\ model = f.model_state_dict
               /\ optimizer = f.optimizer_state_dict
               /\ scheduler = f.scheduler_state_dict
               /\ ret = f.epoch
            \/ /\ err # "none"
               /\ model = hist.model0
               /\ optimizer = hist.optimizer0
               /\ scheduler = hist.scheduler0

-----------------------------------------------------------------------------
(* C6 *)

\* C6: when a call of train or validate returns, the last line of the log is
\* its [END] line and the loss, precision, recall and F1 in it are the sums of
\* this call's own per-batch values divided by len(data_source), exactly
\* len(data_source) batches having contributed; the sums of a call start at
\* zero.
C6_EpochMeans ==
    /\ \A phase \in {"train", "valid"} :
        Returned(phase) =>
            LET n == Len(LoaderOf(phase))
            IN  /\ Len(hist.vals) = n
                /\ call.acc = [loss |-> MeanOf("loss", n),
                               precision |-> MeanOf("precision", n),
                               recall |-> MeanOf("recall", n),
                               f1 |-> MeanOf("f1", n)]
                /\ log # <<>>
                /\ log[Len(log)] =
                     [phase |-> phase, end |-> TRUE, epoch |-> call.epoch, images |-> -1,
                      L |-> Fmt4(MeanOf("loss", n)), P |-> Fmt4(MeanOf("precision", n)),
                      R |-> Fmt4(MeanOf("recall", n)), F1 |-> Fmt4(MeanOf("f1", n))]
    /\ (pc \in {"t_loop", "v_loop"} /\ hist.events = <<>>) => call.acc = ZeroMetrics

\* a second call returns after a first one that reported non-zero means
C6_Witness ==
    /\ ncalls >= 2
    /\ Returned("train")
    /\ Len(train_loader) >= 2
    /\ hist.log0 # <<>>
    /\ hist.log0[Len(hist.log0)].end
    /\ hist.log0[Len(hist.log0)].L > 0
    /\ hist.log0[Len(hist.log0)].P > 0
    /\ call.acc.loss # Zero
    /\ call.acc.f1 # Zero

-----------------------------------------------------------------------------
(* C7 *)

\* C7: whenever a call has ended, also by an error, the checkpoint that was
\* last written successfully is intact on disk: load_state on its path would
\* return its epoch and install the model, optimizer and scheduler state that
\* were saved.
C7_LastCheckpointIntact ==
    (pc = "idle" /\ hist.lastSave.valid) =>
        LET out == LoadOutcome(files[hist.lastSave.path], model, optimizer, scheduler)
        IN  /\ out.err = "none"
            /\ out.ret = hist.lastSave.epoch
            /\ out.model = hist.lastSave.model
            /\ out.optimizer = hist.lastSave.optimizer
            /\ out.scheduler = hist.lastSave.scheduler

-----------------------------------------------------------------------------
(* C8 *)

\* C8: in train and in validate, once the metrics of a batch with no predicted
\* positive have been computed, no error has been raised, the precision of the
\* batch is exactly 0, the running sum of the precisions is the sum it was
\* before plus that 0, and the loop goes on (to the save, the log line or the
\* next batch).
C8_ZeroPredictedPositives ==
    (call.phase \in {"train", "valid"} /\ LastEvent = "metrics" /\ NoPositive(call.preds)) =>
        /\ err = "none"
        /\ call.batch.precision = Zero
        /\ hist.vals[Len(hist.vals)].precision = Zero
        /\ call.acc.precision =
              RSum(SubSeq(Column("precision"), 1, Len(hist.vals) - 1))
        /\ pc \in {"t_save", "t_loop", "v_log", "v_loop"}

C8_Witness ==
    /\ call.phase = "train"
    /\ LastEvent = "metrics"
    /\ NoPositive(call.preds)
    /\ Len(hist.vals) >= 2
    /\ call.acc.precision # Zero

-----------------------------------------------------------------------------
(* C9 *)

\* C9: train takes the batches of the source once each and in order; the
\* steps of batch i are, in this order, zero gradients, forward pass, loss,
\* backpropagation, optimizer step, all before any step of batch i+1; the
\* forward pass of batch i reads parameters that hold exactly i optimizer
\* steps of this call; a call that runs to its end has done this for every
\* batch.
C9_BatchOrder ==
    call.phase = "train" =>
        \* the last batch step of the history: every batch step is the last
        \* one in the state that follows it
        /\ (LastEvent \in {"zero_grad", "forward", "loss", "backward", "step"}) =>
              LET ops == BatchOps
                  k == Len(ops)
              IN  ops[k] = <<BatchOrder[((k - 1) % 5) + 1], (k - 1) \div 5>>
        /\ LastEvent = "forward" =>
              /\ Len(hist.reads) = call.batch_idx + 1
              /\ hist.reads[Len(hist.reads)] = hist.model0.params + call.batch_idx
        /\ pc \in {"t_forward", "t_loss", "t_backward", "t_step", "t_metrics"} =>
              /\ call.batch_idx < Len(train_loader)
              /\ call.masks = train_loader[call.batch_idx + 1].masks
        /\ pc = "t_loss" =>
              call.preds = Predict([params |-> hist.model0.params + call.batch_idx, bn |-> 0],
                                   train_loader[call.batch_idx + 1].images)
        /\ (pc = "idle" /\ Undisturbed) =>
              /\ Len(BatchOps) = 5 * Len(train_loader)
              /\ \A i \in 1..Len(hist.reads) :
                    hist.reads[i] = hist.model0.params + (i - 1)

C9_Witness ==
    /\ Returned("train")
    /\ Len(train_loader) >= 2
    /\ Len(BatchOps) = 5 * Len(train_loader)
    /\ hist.model0.params > 0
    /\ hist.reads[2] = hist.model0.params + 1

-----------------------------------------------------------------------------
(* C10 *)

\* C10: right after a save at batch index i of train(epoch), the file holds
\* the epoch argument, the model and optimizer state after exactly i+1
\* optimizer steps of this call and the scheduler state the call began with;
\* when train returns over N >= 1 batches, the live scheduler is one step
\* ahead of the checkpoint of that epoch and the live optimizer is
\* (N-1) - s*floor((N-1)/s) steps ahead of it.
C10_CheckpointContent ==
    call.phase = "train" =>
        LET f == files[call.path]
            n == Len(train_loader)
            s == call.save_interval
        IN  /\ LastEvent = "save" =>
                /\ f.kind = "ckpt"
                /\ f.epoch = call.epoch
                /\ f.model_state_dict.params = hist.model0.params + call.batch_idx + 1
                /\ f.model_state_dict = model
                /\ f.optimizer_state_dict.steps = hist.optimizer0.steps + call.batch_idx + 1
                /\ f.optimizer_state_dict = optimizer
                /\ f.scheduler_state_dict = hist.scheduler0
            /\ (Returned("train") /\ n >= 1) =>
                /\ f.kind = "ckpt"
                /\ f.epoch = call.epoch
                /\ scheduler.last_epoch = f.scheduler_state_dict.last_epoch + 1
                /\ optimizer.steps - f.optimizer_state_dict.steps
                      = (n - 1) - s * ((n - 1) \div s)
                /\ model.params - f.model_state_dict.params
                      = (n - 1) - s * ((n - 1) \div s)

C10_Witness ==
    /\ Returned("train")
    /\ Len(train_loader) >= 2
    /\ call.epoch = 1
    /\ call.save_interval = 2
    /\ hist.scheduler0.last_epoch > 0
    /\ optimizer.steps - files[call.path].optimizer_state_dict.steps = 1

=============================================================================
